---- MODULE Spec2Model ----
(***************************************************************************)
(* gobank: account records over HTTP (src/api.go) backed by a relational   *)
(* store (src/storage.go).  The model covers the collection route          *)
(* /account, the protected route /account/{id} behind withJWTAuth, the     *)
(* token functions createJWT / validateJWT and the PostgresStorage         *)
(* methods.  Each HTTP request is one action; the handlers and the store   *)
(* methods are operators translated from their Go bodies.                  *)
(***************************************************************************)
EXTENDS Integers, Sequences, FiniteSets, TLC

\* ------------------------------------------------------------------ bounds
\* Account numbers NewAccount may generate: 1..MaxNumber.
MaxNumber == 2
\* The clock runs from ExpiresAt - MaxTick to ExpiresAt + MaxTick.
MaxTick == 1

\* --------------------------------------------------------------- constants
\* createJWT: "expiresAt": 15000
ExpiresAt == 15000
\* http.StatusOK, http.StatusBadRequest
StatusOK == 200
StatusBadRequest == 400

AccountNumbers == 1..MaxNumber
Methods == {"GET", "POST", "DELETE", "PUT"}
\* Signing algorithms a presented token may name in its header.
HMACFamily == {"HS256"}
Algs == {"HS256", "RS256", "none"}
\* Path segments {id} a caller may send, as character sequences.
PathIds == { <<"1">>, <<"0", "2">>, <<"-", "3">>, <<"1", "x">> }

\* A nil pointer / nil error is the empty tuple; a non-nil pointer to v is <<v>>.
Nil == <<>>

VARIABLES
  db,         \* the database: [rows: the account table, nextId: the id serial]
  generated,  \* account numbers NewAccount has generated so far
  issued,     \* tokens createJWT has produced (printed by handleCreateAccount)
  now,        \* wall clock, in the unit of the expiresAt claim
  deleted,    \* ids for which a delete has reported success
  last        \* the request or store call of the step just taken, and its result

vars == <<db, generated, issued, now, deleted, last>>


\* ------------------------------------------------------------ path parsing
DigitVal == [c \in {"0", "1", "2", "3", "4", "5", "6", "7", "8", "9"} |->
               CASE c = "0" -> 0 [] c = "1" -> 1 [] c = "2" -> 2 [] c = "3" -> 3
                 [] c = "4" -> 4 [] c = "5" -> 5 [] c = "6" -> 6 [] c = "7" -> 7
                 [] c = "8" -> 8 [] c = "9" -> 9]

AllDigits(s) == \A i \in 1..Len(s) : s[i] \in DOMAIN DigitVal

RECURSIVE DecimalValue(_)
DecimalValue(s) ==
  IF s = <<>> THEN 0
  ELSE 10 * DecimalValue(SubSeq(s, 1, Len(s) - 1)) + DigitVal[s[Len(s)]]

\* strconv.Atoi: an optional sign, then one or more decimal digits.
Atoi(s) ==
  LET signed == s # <<>> /\ s[1] \in {"+", "-"}
      digits == IF signed THEN Tail(s) ELSE s
  IN IF digits = <<>> \/ ~AllDigits(digits)
       THEN [ok |-> FALSE, val |-> 0]
       ELSE [ok |-> TRUE,
             val |-> IF signed /\ s[1] = "-" THEN 0 - DecimalValue(digits)
                     ELSE DecimalValue(digits)]

\* getId: the {id} path variable through Atoi.
getId(idStr) ==
  LET r == Atoi(idStr)
  IN [id  |-> r.val,
      err |-> IF r.ok THEN Nil ELSE <<"invalid id provided", idStr>>]

\* ------------------------------------------------------------------- store
\* An Account value; the creation timestamp is carried along by the code and
\* never read, and is left out.
Account(id, firstName, lastName, number, balance) ==
  [id |-> id, firstName |-> firstName, lastName |-> lastName,
   number |-> number, balance |-> balance]

\* NewAccount: a fresh account with a generated number.  The number is one
\* that has not been generated before (the data model's "globally unique").
NewAccountNumbers(used) == AccountNumbers \ used
NewAccount(firstName, lastName, number) ==
  Account(0, firstName, lastName, number, 0)

\* A plausible slip: the number and balance parameters ($3, $4) swapped.
CreateAccount_SwappedArgs(d, a) ==
  [err |-> Nil,
   db  |-> [rows   |-> Append(d.rows, Account(d.nextId, a.firstName, a.lastName,
                                              a.balance, a.number)),
            nextId |-> d.nextId + 1]]

\* PostgresStorage.CreateAccount: insert (first_name, last_name, number,
\* balance, created_at); id comes from the table's serial.  The table states
\* no uniqueness on number, so the row is accepted whatever its number.
CreateAccount(d, a) ==
  [err |-> Nil,
   db  |-> [rows   |-> Append(d.rows, Account(d.nextId, a.firstName, a.lastName,
                                              a.number, a.balance)),
            nextId |-> d.nextId + 1]]

\* PostgresStorage.DeleteAccount: return nil.
DeleteAccount(d, id) == [err |-> Nil, db |-> d]

\* PostgresStorage.GetAccountByID: return nil, nil.
GetAccountByID(d, id) == [account |-> Nil, err |-> Nil]

\* PostgresStorage.UpdateAccount: return nil.
UpdateAccount(d, a) == [err |-> Nil, db |-> d]

\* The orders in which "select * from account" may return n rows.
RowOrders(n) == { p \in [1..n -> 1..n] : \A i, j \in 1..n : p[i] = p[j] => i = j }

\* A plausible slip: an empty result treated as sql.ErrNoRows.
GetAllAccounts_ErrNoRows(d, order) ==
  IF d.rows = <<>>
    THEN [accounts |-> <<>>, err |-> <<"sql: no rows in result set">>]
    ELSE [accounts |-> [i \in 1..Len(d.rows) |-> d.rows[order[i]]], err |-> Nil]

\* PostgresStorage.GetAllAccounts: every row of the table, scanned into a
\* slice that starts empty (make([]*Account, 0)).
GetAllAccounts(d, order) ==
  [accounts |-> [i \in 1..Len(d.rows) |-> d.rows[order[i]]], err |-> Nil]


\* ------------------------------------------------------------------ tokens
\* The x-jwt-token header as the server sees it: kind "empty" (header absent
\* or empty: Header.Get gives "" for both), "garbage" (not a JWT), or "jwt"
\* with the header's alg, the key its signature was made with ("secret": the
\* server's JWT_TEST_SECRET; "other": anything else) and its claims.
Claims(number) == [accountNumber |-> number, expiresAt |-> ExpiresAt]
NoClaims == [accountNumber |-> 0, expiresAt |-> 0]
EmptyHeader == [kind |-> "empty", alg |-> "", sig |-> "", claims |-> NoClaims]
GarbageHeader == [kind |-> "garbage", alg |-> "", sig |-> "", claims |-> NoClaims]
JWT(alg, sig, claims) == [kind |-> "jwt", alg |-> alg, sig |-> sig, claims |-> claims]

\* createJWT: HS256 over {expiresAt: 15000, accountNumber: account.Number},
\* signed with the secret.
createJWT(account) ==
  [token |-> JWT("HS256", "secret", Claims(account.number)), err |-> Nil]

\* Tokens a caller can build without the secret: a non-HMAC alg with any
\* account number, or HS256 with a signature made with another key.
ForgedTokens ==
  { JWT(alg, "other", Claims(n)) : alg \in Algs \ HMACFamily, n \in AccountNumbers }
    \cup { JWT("HS256", "other", Claims(1)) }

\* What a caller may put in the header: nothing, garbage, a token the server
\* issued, or a forgery.
Headers == {EmptyHeader, GarbageHeader} \cup issued \cup ForgedTokens

\* jwt.Parse's claim validation: of the claims createJWT sets, none is the
\* registered "exp" the library compares with the clock; "expiresAt" is a
\* private claim it does not read.  t is the time of the call.
RegisteredClaimsValid(claims, t) ==
  "exp" \in DOMAIN claims => t < claims["exp"]

\* The library's signature check with the []byte key the key function gave:
\* only an HMAC method verifies with a byte-slice key.
SignatureValid(tok, key) == tok.alg \in HMACFamily /\ tok.sig = key

\* A plausible slip: the token is decoded without verification
\* (ParseUnverified), so any well-formed token comes back valid.
validateJWT_Unverified(header, t) ==
  IF header.kind # "jwt"
    THEN [valid |-> FALSE, claims |-> NoClaims, err |-> <<"token is malformed">>]
    ELSE [valid |-> TRUE, claims |-> header.claims, err |-> Nil]

\* validateJWT: jwt.Parse with a key function that rejects every method that
\* is not *jwt.SigningMethodHMAC and otherwise returns the secret.
validateJWT(header, t) ==
  IF header.kind # "jwt"
    THEN [valid |-> FALSE, claims |-> NoClaims, err |-> <<"token is malformed">>]
  ELSE IF header.alg \notin HMACFamily
    THEN [valid |-> FALSE, claims |-> header.claims,
          err |-> <<"unexpected signing method", header.alg>>]
  ELSE IF ~SignatureValid(header, "secret")
    THEN [valid |-> FALSE, claims |-> header.claims, err |-> <<"signature is invalid">>]
  ELSE IF ~RegisteredClaimsValid(header.claims, t)
    THEN [valid |-> FALSE, claims |-> header.claims, err |-> <<"token is expired">>]
  ELSE [valid |-> TRUE, claims |-> header.claims, err |-> Nil]

\* int64(claims["accountNumber"].(float64)): the claim travels as a JSON
\* number and comes back as a float64; every integer below 2^53 survives the
\* trip unchanged, and AccountNumbers lies far below that.
Int64OfJSONNumber(n) == n

\* ---------------------------------------------------------------- handlers
\* What a handler wrote and did: err is the error it returned (Nil: none),
\* status/body what it passed to WriteJSON (status 0: nothing written),
\* calls the store methods it called, in order, db the database afterwards,
\* tokens what it printed.
NoBody == [kind |-> "none", error |-> Nil, accounts |-> <<>>, account |-> Nil, id |-> 0]
ErrorBody(e) == [NoBody EXCEPT !.kind = "error", !.error = e]
AccountsBody(as) == [NoBody EXCEPT !.kind = "accounts", !.accounts = as]
AccountBody(ptr) == [NoBody EXCEPT !.kind = "account", !.account = ptr]
DeletedBody(id) == [NoBody EXCEPT !.kind = "deleted", !.id = id]

Failed(e, calls, d) ==
  [err |-> e, status |-> 0, body |-> NoBody, calls |-> calls, db |-> d, tokens |-> {}]
Wrote(status, body, calls, d, tokens) ==
  [err |-> Nil, status |-> status, body |-> body, calls |-> calls, db |-> d,
   tokens |-> tokens]

\* makeHTTPHandlerFunc: an error the handler returns becomes a 400 with the
\* error's text.
makeHTTPHandlerFunc(h) ==
  IF h.err # Nil
    THEN [h EXCEPT !.status = StatusBadRequest, !.body = ErrorBody(h.err)]
    ELSE h

\* handleGetAllAccounts
handleGetAllAccounts(d, order) ==
  LET r == GetAllAccounts(d, order)
  IN IF r.err # Nil THEN Failed(r.err, <<"GetAllAccounts">>, d)
     ELSE Wrote(StatusOK, AccountsBody(r.accounts), <<"GetAllAccounts">>, d, {})

\* handleCreateAccount: decode, NewAccount, CreateAccount, createJWT, print the
\* token, respond with the account as NewAccount built it (id not read back).
handleCreateAccount(d, body, number) ==
  IF ~body.ok THEN Failed(<<"decode error">>, <<>>, d)
  ELSE LET account == NewAccount(body.firstName, body.lastName, number)
           r == CreateAccount(d, account)
           t == createJWT(account)
       IN IF r.err # Nil THEN Failed(r.err, <<"CreateAccount">>, r.db)
          ELSE IF t.err # Nil THEN Failed(t.err, <<"CreateAccount">>, r.db)
          ELSE Wrote(StatusOK, AccountBody(<<account>>), <<"CreateAccount">>, r.db,
                     {t.token})

\* A plausible slip: no default case, so an unknown verb lists the accounts.
handleAccount_NoDefault(d, method, body, number, order) ==
  IF method = "POST" THEN handleCreateAccount(d, body, number)
  ELSE handleGetAllAccounts(d, order)

\* handleAccount: GET lists, POST creates, anything else is an error naming
\* the verb.
handleAccount(d, method, body, number, order) ==
  CASE method = "GET" -> handleGetAllAccounts(d, order)
    [] method = "POST" -> handleCreateAccount(d, body, number)
    [] OTHER -> Failed(<<"method not allowed", method>>, <<>>, d)

\* handleDeleteAccount: getId, GetAccountByID to confirm, DeleteAccount.
handleDeleteAccount(d, idStr) ==
  LET i == getId(idStr)
      g == GetAccountByID(d, i.id)
      x == DeleteAccount(d, i.id)
  IN IF i.err # Nil THEN Failed(i.err, <<>>, d)
     ELSE IF g.err # Nil
       THEN Failed(<<"error occured while deleting account details", g.err>>,
                   <<"GetAccountByID">>, d)
     ELSE IF x.err # Nil THEN Failed(x.err, <<"GetAccountByID", "DeleteAccount">>, x.db)
     ELSE Wrote(StatusOK, DeletedBody(i.id), <<"GetAccountByID", "DeleteAccount">>,
                x.db, {})

\* handleAccountByID: GET fetches by id, DELETE deletes, anything else is an
\* error naming the verb.
handleAccountByID(d, method, idStr) ==
  CASE method = "GET" ->
         LET i == getId(idStr)
             g == GetAccountByID(d, i.id)
         IN IF i.err # Nil THEN Failed(i.err, <<>>, d)
            ELSE IF g.err # Nil
              THEN Failed(<<"error occured while fetching account details", g.err>>,
                          <<"GetAccountByID">>, d)
            ELSE Wrote(StatusOK, AccountBody(g.account), <<"GetAccountByID">>, d, {})
    [] method = "DELETE" -> handleDeleteAccount(d, idStr)
    [] OTHER -> Failed(<<"method not allowed", method>>, <<>>, d)


\* -------------------------------------------------------------- middleware
\* What the protected route did with one request.  outcome: "denied"
\* (permissionDenied wrote its response and the middleware returned),
\* "passed" (the wrapped handler ran and wrote the response), "panic" (the
\* goroutine panicked; net/http recovers it and drops the connection, so the
\* caller gets no response: status 0).  validated: validateJWT accepted the
\* token.
Mw(outcome, status, body, validated, invoked, calls, d) ==
  [outcome |-> outcome, status |-> status, body |-> body, validated |-> validated,
   handlerInvoked |-> invoked, calls |-> calls, db |-> d, tokens |-> {}]

\* permissionDenied: WriteJSON(w, http.StatusOK, ApiError{"permission denied"})
permissionDenied(validated, calls, d) ==
  Mw("denied", StatusOK, ErrorBody(<<"permission denied">>), validated, FALSE, calls, d)

Panicked(calls, d) == Mw("panic", 0, NoBody, TRUE, FALSE, calls, d)

\* The rest of withJWTAuth once the token is accepted.
AfterValidation(d, method, idStr, tok) ==
  LET i == getId(idStr)
      g == GetAccountByID(d, i.id)
      h == makeHTTPHandlerFunc(handleAccountByID(d, method, idStr))
  IN IF i.err # Nil THEN permissionDenied(TRUE, <<>>, d)
     ELSE IF g.err # Nil THEN permissionDenied(TRUE, <<"GetAccountByID">>, d)
     \* account.Number on a nil *Account: nil pointer dereference
     ELSE IF g.account = Nil THEN Panicked(<<"GetAccountByID">>, d)
     ELSE IF g.account[1].number # Int64OfJSONNumber(tok.claims.accountNumber)
       THEN permissionDenied(TRUE, <<"GetAccountByID">>, d)
     ELSE Mw("passed", h.status, h.body, TRUE, TRUE, <<"GetAccountByID">> \o h.calls,
             h.db)

\* A plausible slip: the return after the first permissionDenied is missing,
\* so a request with a rejected token goes on to the id and the lookup.
withJWTAuth_NoReturn(d, t, method, idStr, header) ==
  LET tok == validateJWT(header, t)
      i == getId(idStr)
  IN IF tok.err # Nil \/ ~tok.valid
       THEN permissionDenied(FALSE, IF i.err = Nil THEN <<"GetAccountByID">> ELSE <<>>, d)
       ELSE AfterValidation(d, method, idStr, tok)

\* withJWTAuth: validate the header's token, parse the id, look the account
\* up, compare its number with the token's claim, then call the handler.
withJWTAuth(d, t, method, idStr, header) ==
  LET tok == validateJWT(header, t)
  IN IF tok.err # Nil \/ ~tok.valid
       THEN permissionDenied(FALSE, <<>>, d)
       ELSE AfterValidation(d, method, idStr, tok)

\* ----------------------------------------------------------------- actions
Bodies == { [ok |-> FALSE, firstName |-> "", lastName |-> ""],
            [ok |-> TRUE, firstName |-> "Ada", lastName |-> "Lovelace"] }

NoRequest ==
  [route |-> "none", method |-> "", idStr |-> <<>>, header |-> EmptyHeader,
   number |-> 0, res |-> Mw("none", 0, NoBody, FALSE, FALSE, <<>>, <<>>),
   dbChanged |-> FALSE]

Init ==
  /\ db = [rows |-> <<>>, nextId |-> 1]
  /\ generated = {}
  /\ issued = {}
  /\ now = ExpiresAt - MaxTick
  /\ deleted = {}
  /\ last = NoRequest

\* The clock advances.
Tick ==
  /\ now < ExpiresAt + MaxTick
  /\ now' = now + 1
  /\ last' = NoRequest
  /\ UNCHANGED <<db, generated, issued, deleted>>

\* A request to /account: GET or an unsupported verb.
AccountRequest ==
  \E method \in Methods \ {"POST"}, order \in RowOrders(Len(db.rows)) :
    LET h == makeHTTPHandlerFunc(handleAccount(db, method, CHOOSE b \in Bodies : ~b.ok,
                                               0, order))
    IN /\ db' = h.db
       /\ issued' = issued \cup h.tokens
       /\ last' = [route |-> "/account", method |-> method, idStr |-> <<>>,
                   header |-> EmptyHeader, number |-> 0,
                   res |-> [h EXCEPT !.db = <<>>], dbChanged |-> h.db # db]
       /\ UNCHANGED <<generated, now, deleted>>

\* POST /account: NewAccount draws a number when the body decodes.
CreateRequest ==
  \E body \in Bodies, number \in AccountNumbers :
    /\ IF body.ok THEN number \in NewAccountNumbers(generated)
                  ELSE number = 1
    /\ LET h == makeHTTPHandlerFunc(handleAccount(db, "POST", body, number, <<>>))
       IN /\ db' = h.db
          /\ issued' = issued \cup h.tokens
          /\ generated' = IF body.ok THEN generated \cup {number} ELSE generated
          /\ last' = [route |-> "/account", method |-> "POST", idStr |-> <<>>,
                      header |-> EmptyHeader,
                      number |-> IF body.ok THEN number ELSE 0,
                      res |-> [h EXCEPT !.db = <<>>], dbChanged |-> h.db # db]
          /\ UNCHANGED <<now, deleted>>

\* A request to /account/{id}, through withJWTAuth.
AccountByIDRequest ==
  \E method \in Methods, idStr \in PathIds, header \in Headers :
    LET m == withJWTAuth(db, now, method, idStr, header)
    IN /\ db' = m.db
       /\ last' = [route |-> "/account/{id}", method |-> method, idStr |-> idStr,
                   header |-> header, number |-> 0,
                   res |-> [m EXCEPT !.db = <<>>], dbChanged |-> m.db # db]
       /\ deleted' = IF m.body.kind = "deleted" THEN deleted \cup {m.body.id}
                      ELSE deleted
       /\ UNCHANGED <<generated, issued, now>>

Next == Tick \/ AccountRequest \/ CreateRequest \/ AccountByIDRequest

Spec == Init /\ [][Next]_vars


\* ------------------------------------------------- the store called directly
\* The Storage interface exercised method by method, as any of its callers
\* may: the identifiers are those the path segments parse to.
Ids == { getId(p).id : p \in { q \in PathIds : getId(q).err = Nil } }

StoreCall(method, id, err, account, accounts) ==
  [route |-> "store", method |-> method, id |-> id, err |-> err,
   account |-> account, accounts |-> accounts]

StoreCreateAccount ==
  \E number \in NewAccountNumbers(generated) :
    LET r == CreateAccount(db, NewAccount("Ada", "Lovelace", number))
    IN /\ db' = r.db
       /\ generated' = generated \cup {number}
       /\ last' = StoreCall("CreateAccount", 0, r.err, Nil, <<>>)
       /\ UNCHANGED <<issued, now, deleted>>

StoreDeleteAccount ==
  \E id \in Ids :
    LET r == DeleteAccount(db, id)
    IN /\ db' = r.db
       /\ deleted' = IF r.err = Nil THEN deleted \cup {id} ELSE deleted
       /\ last' = StoreCall("DeleteAccount", id, r.err, Nil, <<>>)
       /\ UNCHANGED <<generated, issued, now>>

StoreGetAccountByID ==
  \E id \in Ids :
    LET r == GetAccountByID(db, id)
    IN /\ last' = StoreCall("GetAccountByID", id, r.err, r.account, <<>>)
       /\ UNCHANGED <<db, generated, issued, now, deleted>>

StoreUpdateAccount ==
  \E id \in Ids, balance \in {0, 1} :
    LET r == UpdateAccount(db, Account(id, "Ada", "Lovelace", 1, balance))
    IN /\ db' = r.db
       /\ last' = StoreCall("UpdateAccount", id, r.err, Nil, <<>>)
       /\ UNCHANGED <<generated, issued, now, deleted>>

StoreGetAllAccounts ==
  \E order \in RowOrders(Len(db.rows)) :
    LET r == GetAllAccounts(db, order)
    IN /\ last' = StoreCall("GetAllAccounts", 0, r.err, Nil, r.accounts)
       /\ UNCHANGED <<db, generated, issued, now, deleted>>

StoreNext ==
  \/ StoreCreateAccount
  \/ StoreDeleteAccount
  \/ StoreGetAccountByID
  \/ StoreUpdateAccount
  \/ StoreGetAllAccounts

StoreSpec == Init /\ [][StoreNext]_vars


\* ------------------------------------------------------------------ claims
Protected == last.route = "/account/{id}"
Collection == last.route = "/account"
PathId == getId(last.idStr)
\* The rows stored under the id the request's path names.
TargetRows ==
  { db.rows[i] : i \in { j \in 1..Len(db.rows) :
                           PathId.err = Nil /\ db.rows[j].id = PathId.id } }
DenialBody == ErrorBody(<<"permission denied">>)
MethodNotAllowed(method) == ErrorBody(<<"method not allowed", method>>)
NotFound == <<"not found">>
Mutating == {"CreateAccount", "DeleteAccount", "UpdateAccount"}
HasRow(id) == \E i \in 1..Len(db.rows) : db.rows[i].id = id

\* C1: a request to /account/{id} carrying a token issued for account B,
\* where the account A stored under {id} is another account, never reaches
\* the handler, never returns A's record, and is answered with a denial.
C1_OtherAccountsTokenDenied ==
  (/\ Protected
   /\ last.header \in issued
   /\ \E a \in TargetRows : a.number # last.header.claims.accountNumber)
  => /\ ~last.res.handlerInvoked
     /\ last.res.body.kind # "account"
     /\ last.res.outcome = "denied"
     /\ last.res.body = DenialBody

\* C2: GET /account/{id of A} with the token issued for A at creation passes
\* the middleware, reaches the handler and responds 200 with A's record.
C2_OwnTokenSucceeds ==
  (/\ Protected
   /\ last.method = "GET"
   /\ last.header \in issued
   /\ \E a \in TargetRows : a.number = last.header.claims.accountNumber)
  => /\ last.res.outcome = "passed"
     /\ last.res.handlerInvoked
     /\ last.res.status = StatusOK
     /\ \E a \in TargetRows :
          /\ a.number = last.header.claims.accountNumber
          /\ last.res.body = AccountBody(<<a>>)

\* C3: once a delete of an id has reported success, a lookup of that id
\* fails with NotFound and returns no record; a delete of an id that has no
\* account fails with NotFound.
C3_DeleteThenNotFound ==
  /\ (last.route = "store" /\ last.method = "GetAccountByID" /\ last.id \in deleted)
       => (last.err = NotFound /\ last.account = Nil)
  /\ (last.route = "store" /\ last.method = "DeleteAccount" /\ ~HasRow(last.id))
       => last.err = NotFound

C5_DeniedTouchesNothing ==
  /\ (Protected /\ last.res.outcome = "denied")
       => /\ ~last.res.handlerInvoked
          /\ \A i \in 1..Len(last.res.calls) : last.res.calls[i] \notin Mutating
          /\ ~last.dbChanged
  /\ (Protected /\ last.header.kind = "empty")
       => (last.res.outcome = "denied" /\ last.res.calls = <<>>)

C5_Witness ==
  /\ Protected /\ last.header.kind = "empty" /\ PathId.err = Nil
  /\ HasRow(PathId.id)
  /\ last.res.outcome = "denied"

\* C6: every request the middleware does not pass to the handler ends in the
\* same response, 200 with {"error": "permission denied"}, whichever check
\* stopped it, an id with no stored account included.
C6_UniformDenial ==
  (Protected /\ last.res.outcome # "passed")
  => (last.res.status = StatusOK /\ last.res.body = DenialBody)

\* C7 (as claimed): a verb other than GET/POST on /account, and a verb other
\* than GET/DELETE on /account/{id}, is answered 400 with an error naming
\* the verb.
C7_UnsupportedVerbNotAllowed ==
  ((Collection /\ last.method \notin {"GET", "POST"})
     \/ (Protected /\ last.method \notin {"GET", "DELETE"}))
  => (last.res.status = StatusBadRequest
        /\ last.res.body = MethodNotAllowed(last.method))

\* C7 (amended): a verb other than GET/POST on /account is answered 400 with
\* an error naming the verb; on /account/{id} the handler answers so for a
\* verb other than GET/DELETE, which the caller sees only for a request the
\* middleware passes on.
C7_UnsupportedVerbAmended ==
  /\ (Collection /\ last.method \notin {"GET", "POST"})
       => (last.res.status = StatusBadRequest
             /\ last.res.body = MethodNotAllowed(last.method)
             /\ last.res.calls = <<>>)
  /\ (Protected /\ last.method \notin {"GET", "DELETE"} /\ last.res.outcome = "passed")
       => (last.res.status = StatusBadRequest
             /\ last.res.body = MethodNotAllowed(last.method))
  /\ \A method \in Methods \ {"GET", "DELETE"}, idStr \in PathIds :
       LET h == makeHTTPHandlerFunc(handleAccountByID(db, method, idStr))
       IN h.status = StatusBadRequest /\ h.body = MethodNotAllowed(method)

C7_Witness ==
  /\ Collection /\ last.method = "PUT"
  /\ last.res.body = MethodNotAllowed("PUT")
  /\ Len(db.rows) >= 1

\* C8: a token whose header names an algorithm outside the HMAC family is
\* rejected by validation, even with a stored account's number as its claim,
\* and never gets past the middleware.
C8_NonHMACRejected ==
  (Protected /\ last.header.kind = "jwt" /\ last.header.alg \notin HMACFamily)
  => /\ ~last.res.validated
     /\ last.res.outcome = "denied"
     /\ ~last.res.handlerInvoked

C8_Witness ==
  /\ Protected /\ last.header.kind = "jwt" /\ last.header.alg \notin HMACFamily
  /\ \E a \in TargetRows : a.number = last.header.claims.accountNumber
  /\ last.res.outcome = "denied"

\* C9: a request carrying a correctly signed token whose expiry has passed
\* is rejected by validation and denied by the middleware.
C9_ExpiredTokenDenied ==
  (Protected /\ last.header \in issued /\ now > last.header.claims.expiresAt)
  => (~last.res.validated /\ last.res.outcome = "denied")

\* C10: GET /account answers 200 with exactly the accounts stored; on a store
\* with no account that is the empty sequence, and no error.
C10_ListReturnsStored ==
  (Collection /\ last.method = "GET")
  => /\ last.res.err = Nil
     /\ last.res.status = StatusOK
     /\ last.res.body.kind = "accounts"
     /\ Len(last.res.body.accounts) = Len(db.rows)
     /\ { last.res.body.accounts[i] : i \in 1..Len(last.res.body.accounts) }
          = { db.rows[i] : i \in 1..Len(db.rows) }

C10_Witness ==
  /\ Collection /\ last.method = "GET"
  /\ db.rows = <<>>
  /\ last.res.status = StatusOK
  /\ last.res.body = AccountsBody(<<>>)

====
